---- MODULE Spec2Model ----
(***************************************************************************)
(* AirSense personal assistant (SuviDeSilva94/Airquality_AI_Assistant).    *)
(*                                                                         *)
(* State machine of the request cycle of the four front ends:              *)
(*   - Airsense_pa_gemini.py       Flask controller with the session       *)
(*                                 location (current_latitude, ...)        *)
(*   - Airsense_pa.py              one-shot console variant (OpenAI)       *)
(*   - Airsense_pa_huggingface.py  one-shot console variant (GPT-Neo)      *)
(* Texts are sequences of one-character strings so that lower(), strip(),  *)
(* the substring test and the location-change regular expression are       *)
(* computed, not assumed.  Python's None is the empty tuple and a present  *)
(* value v is <<v>>.  Coordinates are in 1e-4 degree, concentrations in    *)
(* 1e-3 ug/m3 (integers).                                                  *)
(*                                                                         *)
(* Spec takes the requests one at a time, each view function from its      *)
(* first line to its return.  SpecThreads takes the view function of '/'   *)
(* statement by statement in two request threads, as the server started by *)
(* app.run (threaded unless told otherwise) runs it.                       *)
(* Airsense_pa_gemini.py defines a second view                             *)
(* function named aqi_pollutants_api (line 392, route /aqipollutantsiot);  *)
(* the views are modelled as the functions they are, whatever their        *)
(* registration with Flask.                                                *)
(***************************************************************************)
EXTENDS Integers, Sequences, FiniteSets, TLC

VARIABLES
    current_latitude,   \* Airsense_pa_gemini.py module global
    current_longitude,  \* Airsense_pa_gemini.py module global
    current_city_name,  \* Airsense_pa_gemini.py module global
    cycle,              \* the last completed request cycle (observation)
    previous,           \* outcome and prior location of the cycle before it
    geo_last,           \* last successful answer of the geocoding service
    arg,                \* function harness: the arguments drawn at start
    ret,                \* function harness: what the functions returned
    threads,            \* threaded server: each request thread's position and locals
    resolved            \* threaded server: the locations the geocoding service has given

vars == <<current_latitude, current_longitude, current_city_name,
          cycle, previous, geo_last, arg, ret, threads, resolved>>

(***************************************************************************)
(* Python values                                                           *)
(***************************************************************************)
None == <<>>

Some(v) == <<v>>

\* dict.get(key) / dict.get(key, default) on a dict modelled as a function
Get(d, k, default) == IF k \in DOMAIN d THEN d[k] ELSE default

EmptyDict == [k \in {} |-> None]

(***************************************************************************)
(* Text: str.lower(), str.strip(), `x in s`, and the regular expression    *)
(***************************************************************************)
UPPER == <<"A","B","C","D","E","F","G","H","I","J","K","L","M",
           "N","O","P","Q","R","S","T","U","V","W","X","Y","Z">>

LOWER == <<"a","b","c","d","e","f","g","h","i","j","k","l","m",
           "n","o","p","q","r","s","t","u","v","w","x","y","z">>

DIGITS == {"0","1","2","3","4","5","6","7","8","9"}

LowerChar(c) ==
    IF \E i \in 1..26 : UPPER[i] = c
    THEN LOWER[CHOOSE i \in 1..26 : UPPER[i] = c]
    ELSE c

\* str.lower()
lower(s) == [i \in 1..Len(s) |-> LowerChar(s[i])]

\* \w of the re module (ASCII part)
IsWordChar(c) ==
    \/ \E i \in 1..26 : c = UPPER[i] \/ c = LOWER[i]
    \/ c \in DIGITS
    \/ c = "_"

\* \s of the re module
IsSpace(c) == c \in {" ", "\t", "\n", "\r"}

\* str.strip()
strip(s) ==
    LET keep == {i \in 1..Len(s) : ~IsSpace(s[i])}
    IN  IF keep = {} THEN <<>>
        ELSE LET lo == CHOOSE i \in keep : \A j \in keep : i <= j
                 hi == CHOOSE i \in keep : \A j \in keep : j <= i
             IN  SubSeq(s, lo, hi)

\* `needle in haystack` for str
Contains(haystack, needle) ==
    \E i \in 1..(Len(haystack) - Len(needle) + 1) :
        SubSeq(haystack, i, i + Len(needle) - 1) = needle

\* the literal prefix of the pattern, "change the location to "
LOCATION_LITERAL ==
    <<"c","h","a","n","g","e"," ","t","h","e"," ",
      "l","o","c","a","t","i","o","n"," ","t","o"," ">>

\* re.IGNORECASE match of the literal at position i
LiteralAt(s, i) ==
    /\ i + Len(LOCATION_LITERAL) - 1 <= Len(s)
    /\ \A k \in 1..Len(LOCATION_LITERAL) :
           LowerChar(s[i + k - 1]) = LOCATION_LITERAL[k]

\* end of the longest run of characters satisfying a class, starting at j
\* (j - 1 when the run is empty)
ClassRunEnd(s, j, wordOnly, spaceOnly) ==
    LET ok(c) == IF wordOnly THEN IsWordChar(c)
                 ELSE IF spaceOnly THEN IsSpace(c)
                 ELSE IsWordChar(c) \/ IsSpace(c)
        stops == {e \in (j - 1)..Len(s) :
                     /\ \A k \in j..e : ok(s[k])
                     /\ e = Len(s) \/ ~ok(s[e + 1])}
    IN  CHOOSE e \in stops : TRUE

\* group 1 of the pattern matched right after the literal at i:
\* [\w\s]+ (greedy) then optionally  ,\s*\w+ ; <<lo, hi>> or None
GroupAt(s, i) ==
    LET lo  == i + Len(LOCATION_LITERAL)
        run == ClassRunEnd(s, lo, FALSE, FALSE)
    IN  IF run < lo THEN None
        ELSE IF run + 1 <= Len(s) /\ s[run + 1] = ","
             THEN LET sp == ClassRunEnd(s, run + 2, FALSE, TRUE)
                      w  == ClassRunEnd(s, sp + 1, TRUE, FALSE)
                  IN  IF w >= sp + 1 THEN Some(<<lo, w>>) ELSE Some(<<lo, run>>)
             ELSE Some(<<lo, run>>)

\* re.search(r"change the location to ([\w\s]+(?:,\s*\w+)?)", s, re.IGNORECASE)
\* returns group(1) of the leftmost match as Some(text), or None
location_match(s) ==
    LET hits == {i \in 1..Len(s) : LiteralAt(s, i) /\ GroupAt(s, i) # None}
    IN  IF hits = {} THEN None
        ELSE LET i == CHOOSE h \in hits : \A g \in hits : h <= g
                 g == GroupAt(s, i)[1]
             IN  Some(SubSeq(s, g[1], g[2]))

(***************************************************************************)
(* Constants of the programs                                               *)
(***************************************************************************)
\* DEFAULT_LATITUDE = 59.3293, in 1e-4 degree
DEFAULT_LATITUDE == 593293

\* DEFAULT_LONGITUDE = 18.0686, in 1e-4 degree
DEFAULT_LONGITUDE == 180686

\* current_city_name = "Stockholm"
DEFAULT_CITY_NAME == <<"S","t","o","c","k","h","o","l","m">>

\* lat/lon hard-coded in the console variants (Tokyo), in 1e-4 degree
TOKYO_LATITUDE == 356895

TOKYO_LONGITUDE == 1396917

\* user_query of the console variants' __main__
SCRIPT_USER_QUERY ==
    <<"C","a","n"," ","I"," ","g","o"," ","j","o","g","g","i","n","g"," ",
      "t","o","d","a","y","?">>

KW_DETAILS == <<"d","e","t","a","i","l","s">>

KW_POLLUTANTS == <<"p","o","l","l","u","t","a","n","t","s">>

(***************************************************************************)
(* What the collaborators can answer                                       *)
(***************************************************************************)
\* geocoding service: requests.get raises, raise_for_status raises, or a
\* JSON list of matches
GeoOutcomes ==
    { [kind |-> "transport_error", data |-> <<>>],
      [kind |-> "http_error",      data |-> <<>>],
      [kind |-> "ok", data |-> <<>>],
      [kind |-> "ok", data |-> <<[lat |-> 515074, lon |-> -1278]>>],
      [kind |-> "ok", data |-> <<[lat |-> 0, lon |-> 0],
                                 [lat |-> 515074, lon |-> -1278]>>] }

\* entries of the `list` array of the air-quality response
Entry_Typical ==
    [main |-> [aqi |-> 2],
     components |-> [pm2_5 |-> 12300, pm10 |-> 20100, co |-> 201940,
                     no |-> 0, no2 |-> 740, o3 |-> 68660, so2 |-> 640,
                     nh3 |-> 120],
     dt |-> 1606223802]

Entry_Sparse ==
    [main |-> [aqi |-> 6],
     components |-> [pm2_5 |-> 0, o3 |-> 68660],
     dt |-> 1606223802]

Entry_Bare == [main |-> EmptyDict, dt |-> 1606223802]

Entries == {Entry_Typical, Entry_Sparse, Entry_Bare}

\* air-quality service: requests.get raises, raise_for_status raises, or a
\* JSON object
AirBodies(lat, lon) ==
    LET coord == [lon |-> lon, lat |-> lat]
    IN  {EmptyDict, [coord |-> coord], [coord |-> coord, list |-> <<>>]}
        \cup {[coord |-> coord, list |-> <<e>>] : e \in Entries}

AirOutcomes(lat, lon) ==
    { [kind |-> "transport_error", data |-> EmptyDict],
      [kind |-> "http_error",      data |-> EmptyDict] }
    \cup {[kind |-> "ok", data |-> b] : b \in AirBodies(lat, lon)}

LLMErrors == {"RateLimitError", "Exception"}

LLMTexts == {"The air is fine for a jog.", " Stay indoors today. "}

\* LLM generation service: freeform text, or any error
LLMOutcomes ==
    {[kind |-> "error", exc |-> e, text |-> ""] : e \in LLMErrors}
    \cup {[kind |-> "text", exc |-> "", text |-> t] : t \in LLMTexts}

\* str.strip() on the sample answers of the LLM
strip_text(t) == IF t = " Stay indoors today. " THEN "Stay indoors today." ELSE t

(***************************************************************************)
(* Airsense_pa_gemini.py: functions                                        *)
(***************************************************************************)
\* one invocation of a collaborator or of a component: its arguments and,
\* for a collaborator, what it answered
Call(svc, args, answer) == [svc |-> svc, args |-> args, answer |-> answer]

\* variant: a default coordinate instead of None when nothing is found
get_coordinates_fallback(city_name, geo) ==
    IF geo.kind = "ok" /\ geo.data # <<>>
    THEN Some(<<geo.data[1].lat, geo.data[1].lon>>)
    ELSE Some(<<DEFAULT_LATITUDE, DEFAULT_LONGITUDE>>)

get_coordinates(city_name, geo) ==
    IF geo.kind = "ok"
    THEN IF geo.data # <<>>
         THEN Some(<<geo.data[1].lat, geo.data[1].lon>>)
         ELSE None
    ELSE None

\* variant: the reading array is not looked for
process_api_data_unchecked(data) ==
    IF DOMAIN data # {} THEN Some(data) ELSE None

process_api_data(data) ==
    IF DOMAIN data # {} /\ "list" \in DOMAIN data /\ data.list # <<>>
    THEN Some(data)
    ELSE None

get_air_quality_data(lat, lon, air) ==
    IF air.kind = "ok" THEN process_api_data(air.data) ELSE None

MSG_UNKNOWN == "Could not determine air quality."

MSG_GOOD == "Air quality is good. It's a great day for jogging."

MSG_MODERATE == "Air quality is moderate. You can jog but may consider a shorter time period."

MSG_SENSITIVE == "Air quality is unhealthy for sensitive groups. It's best to avoid strenuous outdoor activities like jogging."

MSG_UNHEALTHY == "Air quality is unhealthy. Avoid outdoor activities."

MSG_VERY_UNHEALTHY == "Air quality is very unhealthy. Please stay indoors."

MSG_HAZARDOUS == "Air quality is hazardous. Please stay indoors."

MSG_ERROR == "Error determining suitable activities."

\* variant: strict comparisons
get_activity_recommendation_strict(aqi) ==
    IF aqi = None THEN MSG_UNKNOWN
    ELSE IF aqi[1] < 1 THEN MSG_GOOD
    ELSE IF aqi[1] < 2 THEN MSG_MODERATE
    ELSE IF aqi[1] < 3 THEN MSG_SENSITIVE
    ELSE IF aqi[1] < 4 THEN MSG_UNHEALTHY
    ELSE IF aqi[1] < 5 THEN MSG_VERY_UNHEALTHY
    ELSE MSG_HAZARDOUS

\* aqi is None or Some(number)
get_activity_recommendation(aqi) ==
    IF aqi = None THEN MSG_UNKNOWN
    ELSE IF aqi[1] <= 1 THEN MSG_GOOD
    ELSE IF aqi[1] <= 2 THEN MSG_MODERATE
    ELSE IF aqi[1] <= 3 THEN MSG_SENSITIVE
    ELSE IF aqi[1] <= 4 THEN MSG_UNHEALTHY
    ELSE IF aqi[1] <= 5 THEN MSG_VERY_UNHEALTHY
    ELSE IF aqi[1] > 5 THEN MSG_HAZARDOUS
    ELSE MSG_ERROR

\* variant: the index 5 already counted as hazardous
aqi_status_shifted(aqi) ==
    IF aqi = None THEN "Not Available"
    ELSE IF aqi[1] <= 1 THEN "Good"
    ELSE IF aqi[1] <= 2 THEN "Moderate"
    ELSE IF aqi[1] <= 3 THEN "Unhealthy for sensitive groups"
    ELSE IF aqi[1] <= 4 THEN "Unhealthy"
    ELSE "Hazardous"

\* the inline table of aqi_pollutants_api (/aqipollutants)
aqi_status(aqi) ==
    IF aqi = None THEN "Not Available"
    ELSE IF aqi[1] <= 1 THEN "Good"
    ELSE IF aqi[1] <= 2 THEN "Moderate"
    ELSE IF aqi[1] <= 3 THEN "Unhealthy for sensitive groups"
    ELSE IF aqi[1] <= 4 THEN "Unhealthy"
    ELSE IF aqi[1] <= 5 THEN "Very Unhealthy"
    ELSE IF aqi[1] > 5 THEN "Hazardous"
    ELSE "Not Available"

\* dict.get(key) giving None or Some(value)
GetOpt(d, k) == IF k \in DOMAIN d THEN Some(d[k]) ELSE None

\* one line of text: a label, a string part, a fixed text and a number
Line(label, s, text, v) == [label |-> label, s |-> s, text |-> text, v |-> v]

\* a concentration as it is written: its digits without the decimal point and
\* the number of digits after the point ("12.30" is 1230 with 2 decimals)
Rendered(digits, decimals) == [digits |-> digits, decimals |-> decimals]

NoNumber == Rendered(0, 0)

\* f"{v}" of a float given in 1e-3 units: the shortest text that reads back as
\* v, with at least one digit after the point ("12.3", "0.74", "68.0")
StrFloat(v) ==
    IF v % 10 # 0 THEN Rendered(v, 3)
    ELSE IF v % 100 # 0 THEN Rendered(v \div 10, 2)
    ELSE Rendered(v \div 100, 1)

\* f"{v:.2f}" of a non-negative concentration in 1e-3 units: hundredths,
\* rounded to nearest
Fmt2f(v) == Rendered((v + 5) \div 10, 2)

\* f"  X: {components.get(k)} ug/m3" if components.get(k) else "  X: Not Available"
\* (the value is tested for truth: None and 0 are both false)
FormatPollutant(label, components, k) ==
    LET c == GetOpt(components, k)
    IN  IF c # None /\ c[1] # 0
        THEN Line(label, <<>>, "ug/m3", StrFloat(c[1]))
        ELSE Line(label, <<>>, "Not Available", NoNumber)

\* f"{x}" of None or a number
FormatOpt(label, x) ==
    IF x = None THEN Line(label, <<>>, "None", 0) ELSE Line(label, <<>>, "", x[1])

POLLUTANT_KEYS == <<"pm2_5", "pm10", "co", "no", "no2", "o3", "so2", "nh3">>

POLLUTANT_LABELS == <<"PM2.5", "PM10", "CO", "NO", "NO2", "O3", "SO2", "NH3">>

\* the formatted string, line by line (the generation time is not modelled)
format_api_response(data) ==
    LET coord == Get(data, "coord", EmptyDict)
        head  == << Line("Air Quality Data from", <<>>, "now", 0),
                    FormatOpt("Coordinates: Lon", GetOpt(coord, "lon")),
                    FormatOpt("Coordinates: Lat", GetOpt(coord, "lat")) >>
    IN  IF DOMAIN data # {} /\ "list" \in DOMAIN data /\ data.list # <<>>
        THEN LET air_data   == data.list[1]
                 components == Get(air_data, "components", EmptyDict)
             IN  head
                 \o << FormatOpt("AQI", GetOpt(Get(air_data, "main", EmptyDict), "aqi")),
                       Line("Pollutants:", <<>>, "", 0) >>
                 \o [i \in 1..8 |->
                        FormatPollutant(POLLUTANT_LABELS[i], components, POLLUTANT_KEYS[i])]
                 \o << FormatOpt("Timestamp", GetOpt(air_data, "dt")) >>
        ELSE head

APOLOGY_NO_DATA == "I could not get the air quality data, try again later!"

APOLOGY_GEMINI_ERROR == "I'm sorry, I encountered an error. Please try again later."

\* the prompt, part by part
PromptFor(query, formatted_data, city_name, detail_level) ==
    << [part |-> "preamble", city |-> city_name, data |-> None, query |-> <<>>] >>
    \o (IF detail_level = "concise"
        THEN << [part |-> "concise", city |-> city_name, data |-> formatted_data,
                 query |-> <<>>] >>
        ELSE IF detail_level = "full"
        THEN << [part |-> "full", city |-> city_name, data |-> formatted_data,
                 query |-> query] >>
        ELSE << >>)
    \o << [part |-> "answer the user query", city |-> <<>>, data |-> None,
           query |-> query] >>

\* variant: only None is taken for a missing reading, not the empty string
get_gemini_response_none_only(query, formatted_data, city_name, detail_level, llm) ==
    IF formatted_data = None
    THEN [text |-> APOLOGY_NO_DATA, calls |-> <<>>]
    ELSE LET prompt == PromptFor(query, formatted_data, city_name, detail_level)
             called == << Call("llm", <<prompt>>, llm) >>
         IN  IF llm.kind = "text"
             THEN [text |-> llm.text, calls |-> called]
             ELSE [text |-> APOLOGY_GEMINI_ERROR, calls |-> called]

\* variant: an error of the generation service is followed by a second attempt
get_gemini_response_second_attempt(query, formatted_data, city_name, detail_level, llm) ==
    IF formatted_data = None \/ formatted_data[1] = <<>>
    THEN [text |-> APOLOGY_NO_DATA, calls |-> <<>>]
    ELSE LET prompt == PromptFor(query, formatted_data, city_name, detail_level)
             called == << Call("llm", <<prompt>>, llm) >>
         IN  IF llm.kind = "text"
             THEN [text |-> llm.text, calls |-> called]
             ELSE [text |-> APOLOGY_GEMINI_ERROR, calls |-> called \o called]

\* formatted_data is None, or Some(lines) (Some(<<>>) is the empty string);
\* llm is what gemini_model.generate_content answers if it is called.
\* Gives the returned text and the calls made.
get_gemini_response(query, formatted_data, city_name, detail_level, llm) ==
    IF formatted_data = None \/ formatted_data[1] = <<>>
    THEN [text |-> APOLOGY_NO_DATA, calls |-> <<>>]
    ELSE LET prompt == PromptFor(query, formatted_data, city_name, detail_level)
             called == << Call("llm", <<prompt>>, llm) >>
         IN  IF llm.kind = "text"
             THEN [text |-> llm.text, calls |-> called]
             ELSE [text |-> APOLOGY_GEMINI_ERROR, calls |-> called]

\* get_activity_recommendation(aqi).split('.')[0]
FirstSentence(msg) ==
    CASE msg = MSG_UNKNOWN        -> "Could not determine air quality"
      [] msg = MSG_GOOD           -> "Air quality is good"
      [] msg = MSG_MODERATE       -> "Air quality is moderate"
      [] msg = MSG_SENSITIVE      -> "Air quality is unhealthy for sensitive groups"
      [] msg = MSG_UNHEALTHY      -> "Air quality is unhealthy"
      [] msg = MSG_VERY_UNHEALTHY -> "Air quality is very unhealthy"
      [] msg = MSG_HAZARDOUS      -> "Air quality is hazardous"
      [] OTHER                    -> "Error determining suitable activities"

OTHER_KEYS == <<"co", "no", "no2", "o3", "so2", "nh3">>

\* key.upper()
OTHER_LABELS == <<"CO", "NO", "NO2", "O3", "SO2", "NH3">>

\* variant: the heading is printed before the level is looked at, and nothing
\* else is
display_air_quality_data_heading_first(data, city_name, detail_level) ==
    << Line("Air Quality Data for: ", city_name, "", 0) >>

\* the lines printed by display_air_quality_data
display_air_quality_data(data, city_name, detail_level) ==
    IF detail_level = "concise" THEN << >>
    ELSE
      << Line("Air Quality Data for: ", city_name, "", 0) >>
      \o
      (IF DOMAIN data # {} /\ "list" \in DOMAIN data /\ data.list # <<>>
       THEN LET air_data   == data.list[1]
                aqi        == GetOpt(Get(air_data, "main", EmptyDict), "aqi")
                components == Get(air_data, "components", EmptyDict)
                present    == SelectSeq(<<1, 2, 3, 4, 5, 6>>,
                                  LAMBDA i : GetOpt(components, OTHER_KEYS[i]) # None)
                other_pollutants ==
                    [n \in 1..Len(present) |->
                        Line(OTHER_LABELS[present[n]], <<>>, "ug/m3",
                             Fmt2f(components[OTHER_KEYS[present[n]]]))]
            IN  (IF aqi # None
                 THEN << Line("- AQI: ", <<>>,
                              FirstSentence(get_activity_recommendation(aqi)), aqi[1]) >>
                 ELSE << >>)
                \o (IF DOMAIN components # {} /\ GetOpt(components, "pm2_5") # None
                    THEN << Line("- PM2.5: ", <<>>, "ug/m3", Fmt2f(components["pm2_5"])) >>
                    ELSE << >>)
                \o (IF DOMAIN components # {} /\ GetOpt(components, "pm10") # None
                    THEN << Line("- PM10: ", <<>>, "ug/m3", Fmt2f(components["pm10"])) >>
                    ELSE << >>)
                \o (IF other_pollutants # << >>
                    THEN << Line("- Other Pollutants:", <<>>, "", 0) >> \o other_pollutants
                    ELSE << >>)
       ELSE << >>)

(***************************************************************************)
(* Airsense_pa.py and Airsense_pa_huggingface.py: functions                *)
(***************************************************************************)
APOLOGY_NO_AIR_QUALITY == "Sorry, I couldn't retrieve the air quality data. Please try again later."

\* data['list'][0]['main']['aqi']: the value, or the exception it raises
ExtractAqi(data) ==
    IF "list" \notin DOMAIN data THEN [exc |-> "KeyError", value |-> None]
    ELSE IF data.list = <<>> THEN [exc |-> "IndexError", value |-> None]
    ELSE IF "main" \notin DOMAIN data.list[1] THEN [exc |-> "KeyError", value |-> None]
    ELSE IF "aqi" \notin DOMAIN data.list[1].main THEN [exc |-> "KeyError", value |-> None]
    ELSE [exc |-> "", value |-> Some(data.list[1].main.aqi)]

\* Airsense_pa.py: requests errors and KeyError give None, anything else
\* propagates
get_air_quality(air) ==
    IF air.kind # "ok" THEN [exc |-> "", value |-> None]
    ELSE LET x == ExtractAqi(air.data)
         IN  IF x.exc = "KeyError" THEN [exc |-> "", value |-> None] ELSE x

\* Airsense_pa.py: the text returned (or the exception raised) and the calls
get_gpt_response_with_air_quality(user_input, air, llm) ==
    LET fetched == << Call("fetch", <<TOKYO_LATITUDE, TOKYO_LONGITUDE>>, air) >>
        air_quality == get_air_quality(air)
    IN  IF air_quality.exc # ""
        THEN [exc |-> air_quality.exc, text |-> "", calls |-> fetched]
        ELSE IF air_quality.value = None
        THEN [exc |-> "", text |-> APOLOGY_NO_AIR_QUALITY, calls |-> fetched]
        ELSE LET calls == fetched
                     \o << Call("compose", <<user_input, air_quality.value>>, None),
                           Call("llm", <<user_input, air_quality.value>>, llm) >>
             IN  IF llm.kind = "text"
                 THEN [exc |-> "", text |-> strip_text(llm.text), calls |-> calls]
                 ELSE [exc |-> "", calls |-> calls, text |->
                        CASE llm.exc = "AuthenticationError" ->
                               "Sorry, there was an authentication error. Please check the API key."
                          [] llm.exc = "RateLimitError" ->
                               "Sorry, you've exceeded the rate limit. Please try again later."
                          [] llm.exc = "OpenAIError" ->
                               "Sorry, I couldn't process your request. Please try again later."
                          [] OTHER ->
                               "An unexpected error occurred. Please try again."]

\* Airsense_pa_huggingface.py: only requests errors give None
hf_get_air_quality(air) ==
    IF air.kind # "ok" THEN [exc |-> "", value |-> None]
    ELSE ExtractAqi(air.data)

\* Airsense_pa_huggingface.py: the generator call is not guarded
hf_get_gpt_response_with_air_quality(user_input, air_quality, llm) ==
    IF air_quality = None
    THEN [exc |-> "", text |-> APOLOGY_NO_AIR_QUALITY, calls |-> <<>>]
    ELSE LET calls == << Call("compose", <<user_input, air_quality>>, None),
                         Call("llm", <<user_input, air_quality>>, llm) >>
         IN  IF llm.kind = "text"
             THEN [exc |-> "", text |-> llm.text, calls |-> calls]
             ELSE [exc |-> llm.exc, text |-> "", calls |-> calls]

(***************************************************************************)
(* Requests                                                                *)
(***************************************************************************)
T_air == <<"a","i","r","?">>

T_details == <<"d","e","t","a","i","l","s">>

T_Pollutants == <<"P","o","l","l","u","t","a","n","t","s">>

T_change == <<"c","h","a","n","g","e"," ","t","h","e"," ",
              "l","o","c","a","t","i","o","n"," ","t","o">>

T_Change == <<"C","h","a","n","g","e"," ","T","H","E"," ",
              "L","o","c","a","t","i","o","n"," ","t","O">>

T_London == <<"L","o","n","d","o","n">>

T_paris == <<"p","a","r","i","s">>

T_UK == <<"U","K">>

SP == <<" ">>

COMMA == <<",">>

\* the user texts tried (an absent query parameter is the empty text)
Queries ==
    { << >>,
      T_air,
      T_air \o SP \o T_details,
      T_Pollutants \o SP \o T_air,
      T_change \o SP \o T_London,
      T_Change \o SP \o T_paris,
      T_change \o SP \o T_London \o COMMA \o SP \o T_UK,
      T_change \o SP \o T_London \o SP \o T_details,
      T_change \o SP \o T_London \o <<"?">>,
      T_change,
      T_change \o COMMA \o SP \o T_London \o SP \o T_Pollutants,
      T_details \o SP \o T_change \o SP \o SP }

\* request.method values that reach the view function of '/'
Methods == {"GET", "POST", "HEAD"}

Result(key, status, text, name) ==
    [key |-> key, status |-> status, text |-> text, name |-> name]

Location == <<current_latitude, current_longitude, current_city_name>>

NoCycle ==
    [program |-> "none", query |-> << >>,
     pre |-> <<DEFAULT_LATITUDE, DEFAULT_LONGITUDE, DEFAULT_CITY_NAME>>,
     calls |-> << >>, result |-> Result("none", 0, "", << >>), console |-> << >>]

\* the geocoding service was asked and gave an error or no match
ResolutionFailed(c) ==
    \E i \in 1..Len(c.calls) :
        /\ c.calls[i].svc = "geocode"
        /\ c.calls[i].answer.kind # "ok" \/ c.calls[i].answer.data = << >>

\* what is remembered of a cycle once the next one has completed: whether it
\* was a location change that failed, and the location it started from
Summary(c) ==
    IF ResolutionFailed(c)
    THEN [resolution_failed |-> TRUE, pre |-> Some(c.pre)]
    ELSE [resolution_failed |-> FALSE, pre |-> None]

\* a cycle has completed
Complete(program, raw, calls, result, console) ==
    /\ cycle' = [program |-> program, query |-> raw,
                 pre |-> Location, calls |-> calls, result |-> result,
                 console |-> console]
    /\ previous' = Summary(cycle)
    /\ UNCHANGED <<arg, ret, threads, resolved>>

\* the request threads of the server
Threads == {1, 2}

\* a thread that is not handling a request
Idle ==
    [pc |-> "idle", query |-> << >>, city_name |-> << >>, coordinates |-> None,
     sent |-> None, data |-> None, console |-> None, prompt |-> None,
     result |-> Result("none", 0, "", << >>)]

Init ==
    /\ current_latitude = DEFAULT_LATITUDE
    /\ current_longitude = DEFAULT_LONGITUDE
    /\ current_city_name = DEFAULT_CITY_NAME
    /\ cycle = NoCycle
    /\ previous = Summary(NoCycle)
    /\ geo_last = None
    /\ arg = None
    /\ ret = None
    /\ threads = [t \in Threads |-> Idle]
    /\ resolved = {}

\* variant: only the first keyword is looked for
DetailLevelOf_details_only(user_query) ==
    IF Contains(user_query, KW_DETAILS) THEN "full" ELSE "concise"

\* the level chosen from the user text
DetailLevelOf(user_query) ==
    IF Contains(user_query, KW_DETAILS) \/ Contains(user_query, KW_POLLUTANTS)
    THEN "full"
    ELSE "concise"

\* lower(), the pattern search and the keyword scan of each user text
\* (evaluated once per text)
Parsed ==
    [raw \in Queries |->
        LET user_query == lower(raw)
        IN  [user_query |-> user_query,
             location_match |-> location_match(user_query),
             detail_level |-> DetailLevelOf(user_query)]]

\* variant: the display name is assigned before the coordinates are tested
ChangeLocation_name_first(raw, city_name, geo) ==
    LET coordinates == get_coordinates(city_name, geo)
        called == << Call("geocode", <<city_name>>, geo) >>
    IN  /\ geo_last' = IF geo.kind = "ok" /\ geo.data # << >>
                       THEN Some([name |-> city_name, lat |-> geo.data[1].lat,
                                  lon |-> geo.data[1].lon])
                       ELSE geo_last
        /\ current_city_name' = city_name
        /\ IF coordinates # None
           THEN /\ current_latitude' = coordinates[1][1]
                /\ current_longitude' = coordinates[1][2]
                /\ Complete("gemini", raw, called,
                            Result("status", 200, "Location updated to ", city_name),
                            << >>)
           ELSE /\ UNCHANGED <<current_latitude, current_longitude>>
                /\ Complete("gemini", raw, called,
                            Result("error", 400,
                                   "Could not determine coordinates for city {city_name}. Using previous location.",
                                   city_name),
                            << >>)

\* variant: the failure is returned without its status code
ChangeLocation_no_status(raw, city_name, geo) ==
    LET coordinates == get_coordinates(city_name, geo)
        called == << Call("geocode", <<city_name>>, geo) >>
    IN  /\ geo_last' = IF geo.kind = "ok" /\ geo.data # << >>
                       THEN Some([name |-> city_name, lat |-> geo.data[1].lat,
                                  lon |-> geo.data[1].lon])
                       ELSE geo_last
        /\ IF coordinates # None
           THEN /\ current_latitude' = coordinates[1][1]
                /\ current_longitude' = coordinates[1][2]
                /\ current_city_name' = city_name
                /\ Complete("gemini", raw, called,
                            Result("status", 200, "Location updated to ", city_name),
                            << >>)
           ELSE /\ UNCHANGED <<current_latitude, current_longitude, current_city_name>>
                /\ Complete("gemini", raw, called,
                            Result("error", 200,
                                   "Could not determine coordinates for city {city_name}. Using previous location.",
                                   city_name),
                            << >>)

\* the location-change branch of air_quality_api
ChangeLocation(raw, city_name, geo) ==
    LET coordinates == get_coordinates(city_name, geo)
        called == << Call("geocode", <<city_name>>, geo) >>
    IN  /\ geo_last' = IF geo.kind = "ok" /\ geo.data # << >>
                       THEN Some([name |-> city_name, lat |-> geo.data[1].lat,
                                  lon |-> geo.data[1].lon])
                       ELSE geo_last
        /\ IF coordinates # None
           THEN /\ current_latitude' = coordinates[1][1]
                /\ current_longitude' = coordinates[1][2]
                /\ current_city_name' = city_name
                /\ Complete("gemini", raw, called,
                            Result("status", 200, "Location updated to ", city_name),
                            << >>)
           ELSE /\ UNCHANGED <<current_latitude, current_longitude, current_city_name>>
                /\ Complete("gemini", raw, called,
                            Result("error", 400,
                                   "Could not determine coordinates for city {city_name}. Using previous location.",
                                   city_name),
                            << >>)

\* the air-quality branch of air_quality_api
AnswerAirQuality(raw, user_query, detail_level, air, llm) ==
    LET fetched == << Call("fetch", <<current_latitude, current_longitude>>, air) >>
        air_quality_data == get_air_quality_data(current_latitude, current_longitude, air)
    IN  /\ UNCHANGED <<current_latitude, current_longitude, current_city_name, geo_last>>
        /\ IF air_quality_data # None
           THEN LET data == air_quality_data[1]
                    formatted_data == format_api_response(data)
                    console == display_air_quality_data(data, current_city_name, detail_level)
                    response == get_gemini_response(user_query, Some(formatted_data),
                                                    current_city_name, detail_level, llm)
                IN  Complete("gemini", raw,
                             fetched
                             \o << Call("format", <<data>>, None),
                                   Call("display", <<data, current_city_name, detail_level>>, None),
                                   Call("compose", <<user_query, formatted_data,
                                                     current_city_name, detail_level>>, None) >>
                             \o response.calls,
                             Result("response", 200, response.text, << >>),
                             console)
           ELSE Complete("gemini", raw, fetched,
                         Result("error", 500, "Could not get air quality data", << >>),
                         << >>)

\* Airsense_pa_gemini.py, route '/': one request, from the first line of the
\* view function to its return
air_quality_api ==
    \E method \in Methods, raw \in Queries :
        IF method \notin {"GET", "POST"}
        THEN /\ UNCHANGED <<current_latitude, current_longitude, current_city_name, geo_last>>
             /\ Complete("gemini", raw, << >>,
                         Result("error", 405, "Method not allowed", << >>), << >>)
        ELSE LET user_query == Parsed[raw].user_query
                 location_found == Parsed[raw].location_match
             IN  IF location_found # None
                 THEN \E geo \in GeoOutcomes :
                          ChangeLocation(raw, strip(location_found[1]), geo)
                 ELSE \E air \in AirOutcomes(current_latitude, current_longitude) :
                          \E llm \in LLMOutcomes :
                              AnswerAirQuality(raw, user_query, Parsed[raw].detail_level,
                                               air, llm)

\* Airsense_pa.py run as a script
openai_main ==
    \E air \in AirOutcomes(TOKYO_LATITUDE, TOKYO_LONGITUDE), llm \in LLMOutcomes :
        LET r == get_gpt_response_with_air_quality(SCRIPT_USER_QUERY, air, llm)
        IN  /\ UNCHANGED <<current_latitude, current_longitude, current_city_name, geo_last>>
            /\ Complete("openai", SCRIPT_USER_QUERY, r.calls,
                        IF r.exc = "" THEN Result("text", 0, r.text, << >>)
                        ELSE Result("exception", 1, r.exc, << >>),
                        << >>)

\* Airsense_pa_huggingface.py run as a script
huggingface_main ==
    \E air \in AirOutcomes(TOKYO_LATITUDE, TOKYO_LONGITUDE), llm \in LLMOutcomes :
        LET fetched == << Call("fetch", <<TOKYO_LATITUDE, TOKYO_LONGITUDE>>, air) >>
            air_quality == hf_get_air_quality(air)
            r == hf_get_gpt_response_with_air_quality(SCRIPT_USER_QUERY,
                                                      air_quality.value, llm)
        IN  /\ UNCHANGED <<current_latitude, current_longitude, current_city_name, geo_last>>
            /\ IF air_quality.exc # ""
               THEN Complete("huggingface", SCRIPT_USER_QUERY, fetched,
                             Result("exception", 1, air_quality.exc, << >>), << >>)
               ELSE Complete("huggingface", SCRIPT_USER_QUERY, fetched \o r.calls,
                             IF r.exc = "" THEN Result("text", 0, r.text, << >>)
                             ELSE Result("exception", 1, r.exc, << >>),
                             << >>)

\* f"{x}" if x is not None else "Not Available", one field of a JSON answer
JsonField(key, x) ==
    IF x # None THEN Line(key, <<>>, "", StrFloat(x[1]))
    ELSE Line(key, <<>>, "Not Available", NoNumber)

\* what aqi_pollutants_api does with the data it fetched (lines 313-364); the
\* except clause is not reached with numbers as values
aqi_pollutants_answer(air_quality_data) ==
    IF air_quality_data # None /\ air_quality_data[1].list # << >>
    THEN LET air_data   == air_quality_data[1].list[1]
             components == Get(air_data, "components", EmptyDict)
             aqi        == GetOpt(Get(air_data, "main", EmptyDict), "aqi")
         IN  IF aqi # None
             THEN [calls |-> << Call("jsonify",
                                     << Line("aqi", <<>>, "", Rendered(aqi[1], 0)) >>
                                     \o [i \in 1..8 |->
                                            JsonField(POLLUTANT_KEYS[i],
                                                      GetOpt(components, POLLUTANT_KEYS[i]))]
                                     \o << Line("aqi_status", <<>>, aqi_status(aqi), NoNumber) >>,
                                     None) >>,
                   result |-> Result("json", 200, aqi_status(aqi), << >>)]
             ELSE [calls |-> << >>,
                   result |-> Result("error", 400, "AQI value not available", << >>)]
    ELSE [calls |-> << >>,
          result |-> Result("error", 500, "Could not get air quality data", << >>)]

\* variant: the fetch is made for the default coordinates
aqi_pollutants_view_default_coordinates(lat, lon, air) ==
    LET answer == aqi_pollutants_answer(get_air_quality_data(DEFAULT_LATITUDE,
                                                             DEFAULT_LONGITUDE, air))
    IN  [calls |-> << Call("fetch", <<DEFAULT_LATITUDE, DEFAULT_LONGITUDE>>, air) >>
                   \o answer.calls,
         result |-> answer.result]

\* the body of aqi_pollutants_api, lat and lon being the values of the
\* globals it reads
aqi_pollutants_view(lat, lon, air) ==
    LET answer == aqi_pollutants_answer(get_air_quality_data(lat, lon, air))
    IN  [calls |-> << Call("fetch", <<lat, lon>>, air) >> \o answer.calls,
         result |-> answer.result]

\* Airsense_pa_gemini.py, route '/aqipollutants' (the first function of that
\* name, line 307)
aqi_pollutants_api ==
    \E air \in AirOutcomes(current_latitude, current_longitude) :
        LET view == aqi_pollutants_view(current_latitude, current_longitude, air)
        IN  /\ UNCHANGED <<current_latitude, current_longitude, current_city_name, geo_last>>
            /\ Complete("aqipollutants", << >>, view.calls, view.result, << >>)

\* the body of pm_air_quality_api
pm_air_quality_view(lat, lon, air) ==
    LET fetched == << Call("fetch", <<lat, lon>>, air) >>
        air_quality_data == get_air_quality_data(lat, lon, air)
    IN  IF air_quality_data # None /\ air_quality_data[1].list # << >>
        THEN LET air_data   == air_quality_data[1].list[1]
                 components == Get(air_data, "components", EmptyDict)
                 pm25       == GetOpt(components, "pm2_5")
                 pm10       == GetOpt(components, "pm10")
             IN  IF pm25 # None /\ pm10 # None
                 THEN [calls |-> fetched
                                 \o << Call("jsonify",
                                            << JsonField("pm25", pm25),
                                               JsonField("pm10", pm10) >>, None) >>,
                       result |-> Result("json", 200, "", << >>)]
                 ELSE [calls |-> fetched,
                       result |-> Result("error", 400,
                                         "PM2.5 or PM10 values not available", << >>)]
        ELSE [calls |-> fetched,
              result |-> Result("error", 500, "Could not get air quality data", << >>)]

\* Airsense_pa_gemini.py, route '/pmairquality'
pm_air_quality_api ==
    \E air \in AirOutcomes(current_latitude, current_longitude) :
        LET view == pm_air_quality_view(current_latitude, current_longitude, air)
        IN  /\ UNCHANGED <<current_latitude, current_longitude, current_city_name, geo_last>>
            /\ Complete("pmairquality", << >>, view.calls, view.result, << >>)

Next ==
    \/ air_quality_api
    \/ aqi_pollutants_api
    \/ pm_air_quality_api
    \/ openai_main
    \/ huggingface_main

Spec == Init /\ [][Next]_vars

(***************************************************************************)
(* The view function of '/' in the request threads of the server           *)
(***************************************************************************)
\* the texts the threads are asked: a question and a location change
ThreadQueries == {T_air, T_change \o SP \o T_London}

\* thread t goes on with its locals changed; nothing else changes
Step(t, locals) ==
    /\ threads' = [threads EXCEPT ![t] = locals]
    /\ UNCHANGED <<cycle, previous, geo_last, arg, ret>>

\* lines 413-427: a GET request arrives and its text is read
Receive(t) ==
    /\ threads[t].pc = "idle"
    /\ \E raw \in ThreadQueries :
           Step(t, [Idle EXCEPT !.query = raw,
                                !.pc = IF Parsed[raw].location_match # None
                                       THEN "get_coordinates" ELSE "fetch"])
    /\ UNCHANGED <<current_latitude, current_longitude, current_city_name, resolved>>

\* lines 429-432 and 438: the name is resolved; no match ends the request
Resolve(t) ==
    /\ threads[t].pc = "get_coordinates"
    /\ \E geo \in GeoOutcomes :
           LET city_name == strip(Parsed[threads[t].query].location_match[1])
               coordinates == get_coordinates(city_name, geo)
           IN  IF coordinates # None
               THEN /\ Step(t, [threads[t] EXCEPT !.city_name = city_name,
                                                  !.coordinates = coordinates,
                                                  !.pc = "store_coordinates"])
                    /\ resolved' = resolved \cup
                                      {<<coordinates[1][1], coordinates[1][2], city_name>>}
               ELSE /\ Step(t, [threads[t] EXCEPT
                                   !.city_name = city_name,
                                   !.pc = "done",
                                   !.result = Result("error", 400,
                                       "Could not determine coordinates for city {city_name}. Using previous location.",
                                       city_name)])
                    /\ UNCHANGED resolved
    /\ UNCHANGED <<current_latitude, current_longitude, current_city_name>>

\* line 433
StoreCoordinates(t) ==
    /\ threads[t].pc = "store_coordinates"
    /\ current_latitude' = threads[t].coordinates[1][1]
    /\ current_longitude' = threads[t].coordinates[1][2]
    /\ Step(t, [threads[t] EXCEPT !.pc = "store_city_name"])
    /\ UNCHANGED <<current_city_name, resolved>>

\* line 434
StoreCityName(t) ==
    /\ threads[t].pc = "store_city_name"
    /\ current_city_name' = threads[t].city_name
    /\ Step(t, [threads[t] EXCEPT !.pc = "acknowledge"])
    /\ UNCHANGED <<current_latitude, current_longitude, resolved>>

\* lines 435-436: the acknowledgement is made of the global's value
Acknowledge(t) ==
    /\ threads[t].pc = "acknowledge"
    /\ Step(t, [threads[t] EXCEPT
                   !.pc = "done",
                   !.result = Result("status", 200, "Location updated to ",
                                     current_city_name)])
    /\ UNCHANGED <<current_latitude, current_longitude, current_city_name, resolved>>

\* lines 440-441 and 452: the globals' coordinates are read and sent
Fetch(t) ==
    /\ threads[t].pc = "fetch"
    /\ \E air \in AirOutcomes(current_latitude, current_longitude) :
           LET air_quality_data == get_air_quality_data(current_latitude,
                                                        current_longitude, air)
               sent == Some(<<current_latitude, current_longitude>>)
           IN  IF air_quality_data # None
               THEN Step(t, [threads[t] EXCEPT !.sent = sent,
                                               !.data = air_quality_data,
                                               !.pc = "display"])
               ELSE Step(t, [threads[t] EXCEPT
                               !.sent = sent,
                               !.pc = "done",
                               !.result = Result("error", 500,
                                                 "Could not get air quality data", << >>)])
    /\ UNCHANGED <<current_latitude, current_longitude, current_city_name, resolved>>

\* lines 442-444 / 447: the report is printed under the global's name
Display(t) ==
    /\ threads[t].pc = "display"
    /\ Step(t, [threads[t] EXCEPT
                   !.console = Some(display_air_quality_data(
                                        threads[t].data[1], current_city_name,
                                        Parsed[threads[t].query].detail_level)),
                   !.pc = "respond"])
    /\ UNCHANGED <<current_latitude, current_longitude, current_city_name, resolved>>

\* lines 445 / 448 and 450: the prompt is made with the global's name
Respond(t) ==
    /\ threads[t].pc = "respond"
    /\ \E llm \in LLMOutcomes :
           LET response == get_gemini_response(
                               Parsed[threads[t].query].user_query,
                               Some(format_api_response(threads[t].data[1])),
                               current_city_name,
                               Parsed[threads[t].query].detail_level, llm)
           IN  Step(t, [threads[t] EXCEPT
                          !.prompt = IF response.calls # << >>
                                     THEN Some(response.calls[1].args[1]) ELSE None,
                          !.pc = "done",
                          !.result = Result("response", 200, response.text, << >>)])
    /\ UNCHANGED <<current_latitude, current_longitude, current_city_name, resolved>>

\* the answer has been sent; the thread is free for the next request
Return(t) ==
    /\ threads[t].pc = "done"
    /\ Step(t, Idle)
    /\ UNCHANGED <<current_latitude, current_longitude, current_city_name, resolved>>

NextThreads ==
    \E t \in Threads :
        \/ Receive(t)
        \/ Resolve(t)
        \/ StoreCoordinates(t)
        \/ StoreCityName(t)
        \/ Acknowledge(t)
        \/ Fetch(t)
        \/ Display(t)
        \/ Respond(t)
        \/ Return(t)

SpecThreads == Init /\ [][NextThreads]_vars

(***************************************************************************)
(* The functions called on their own                                       *)
(***************************************************************************)
MaxAqi == 7

AqiValues == {None} \cup {Some(i) : i \in 0..MaxAqi}

FormattedValues ==
    {None, Some(<< >>),
     Some(format_api_response([coord |-> [lon |-> 180686, lat |-> 593293],
                               list |-> <<Entry_Typical>>]))}

\* the readings handed to the formatting and display functions: what
\* process_api_data lets through
Readings ==
    {[coord |-> [lon |-> DEFAULT_LONGITUDE, lat |-> DEFAULT_LATITUDE], list |-> <<e>>] :
        e \in Entries}

FnArgs ==
    [aqi : AqiValues, query : {T_air, T_air \o SP \o T_details},
     formatted_data : FormattedValues, city_name : {DEFAULT_CITY_NAME},
     detail_level : {"concise", "full"}, llm : LLMOutcomes, data : Readings]

NoRet == [recommendation |-> None, status |-> None, response |-> None,
          console |-> None, formatted |-> None]

InitFn ==
    /\ current_latitude = DEFAULT_LATITUDE
    /\ current_longitude = DEFAULT_LONGITUDE
    /\ current_city_name = DEFAULT_CITY_NAME
    /\ cycle = NoCycle
    /\ previous = Summary(NoCycle)
    /\ geo_last = None
    /\ arg \in FnArgs
    /\ ret = NoRet
    /\ threads = [t \in Threads |-> Idle]
    /\ resolved = {}

call_get_activity_recommendation ==
    /\ ret.recommendation = None
    /\ ret' = [ret EXCEPT !.recommendation = Some(get_activity_recommendation(arg.aqi))]
    /\ UNCHANGED <<current_latitude, current_longitude, current_city_name,
                   cycle, previous, geo_last, arg, threads, resolved>>

call_aqi_status ==
    /\ ret.status = None
    /\ ret' = [ret EXCEPT !.status = Some(aqi_status(arg.aqi))]
    /\ UNCHANGED <<current_latitude, current_longitude, current_city_name,
                   cycle, previous, geo_last, arg, threads, resolved>>

call_get_gemini_response ==
    /\ ret.response = None
    /\ ret' = [ret EXCEPT !.response =
                  Some(get_gemini_response(arg.query, arg.formatted_data,
                                           arg.city_name, arg.detail_level, arg.llm))]
    /\ UNCHANGED <<current_latitude, current_longitude, current_city_name,
                   cycle, previous, geo_last, arg, threads, resolved>>

call_display_air_quality_data ==
    /\ ret.console = None
    /\ ret' = [ret EXCEPT !.console =
                  Some(display_air_quality_data(arg.data, arg.city_name,
                                                arg.detail_level))]
    /\ UNCHANGED <<current_latitude, current_longitude, current_city_name,
                   cycle, previous, geo_last, arg, threads, resolved>>

call_format_api_response ==
    /\ ret.formatted = None
    /\ ret' = [ret EXCEPT !.formatted = Some(format_api_response(arg.data))]
    /\ UNCHANGED <<current_latitude, current_longitude, current_city_name,
                   cycle, previous, geo_last, arg, threads, resolved>>

NextFn ==
    \/ call_get_activity_recommendation
    \/ call_aqi_status
    \/ call_get_gemini_response
    \/ call_display_air_quality_data
    \/ call_format_api_response

SpecFn == InitFn /\ [][NextFn]_vars

(***************************************************************************)
(* Properties                                                              *)
(***************************************************************************)
CallsTo(c, svc) == SelectSeq(c.calls, LAMBDA x : x.svc = svc)

DefaultLocation == <<DEFAULT_LATITUDE, DEFAULT_LONGITUDE, DEFAULT_CITY_NAME>>

\* the user text matches the location-change command (case-insensitively)
MatchesCommand(raw) == location_match(raw) # None

\* the name as it is written in the command
NameGiven(raw) == strip(location_match(raw)[1])

\* the geocoding service was asked and gave at least one match
ResolutionSucceeded(c) ==
    /\ CallsTo(c, "geocode") # << >>
    /\ ~ResolutionFailed(c)

\* the air-quality service was asked and gave a transport failure, a
\* non-success status, or a response without the reading array
FetchFailed(c) ==
    /\ CallsTo(c, "fetch") # << >>
    /\ LET a == CallsTo(c, "fetch")[1].answer
       IN  a.kind # "ok" \/ "list" \notin DOMAIN a.data

\* the same, or a reading array that is empty
FetchFailedOrEmpty(c) ==
    /\ CallsTo(c, "fetch") # << >>
    /\ LET a == CallsTo(c, "fetch")[1].answer
       IN  a.kind # "ok" \/ "list" \notin DOMAIN a.data \/ a.data.list = << >>

\* the LLM generation service was asked and raised an error
LLMFailed(c) ==
    /\ CallsTo(c, "llm") # << >>
    /\ CallsTo(c, "llm")[1].answer.kind = "error"

(* C1: after any sequence of requests, currentLocation is the default        *)
(* triple while no resolution has succeeded, and otherwise exactly the      *)
(* latitude, longitude and name of the most recent successful resolution.   *)
C1_LocationIsDefaultOrLastResolution ==
    Location = IF geo_last = None
               THEN DefaultLocation
               ELSE <<geo_last[1].lat, geo_last[1].lon, geo_last[1].name>>

\* a resolution has just failed after an earlier one had succeeded
C1_Witness ==
    /\ ResolutionFailed(cycle)
    /\ geo_last # None
    /\ Location # DefaultLocation

(* C2: a failed resolution leaves currentLocation as it was before the      *)
(* request, and the air-quality request that follows it calls the fetcher   *)
(* with exactly the coordinates that were current before the failed attempt. *)
C2_FailedResolutionKeepsLocation ==
    /\ ResolutionFailed(cycle) => Location = cycle.pre
    /\ (/\ previous.resolution_failed
        /\ cycle.program = "gemini"
        /\ CallsTo(cycle, "fetch") # << >>)
       => CallsTo(cycle, "fetch")[1].args = <<previous.pre[1][1], previous.pre[1][2]>>

\* a changed location, then a failed change, then an air-quality request
C2_Witness ==
    /\ previous.resolution_failed
    /\ previous.pre[1] # DefaultLocation
    /\ cycle.program = "gemini"
    /\ CallsTo(cycle, "fetch") # << >>

(* C3: in every cycle whose text matches the location-change command,       *)
(* neither the fetcher nor the LLM is invoked; on success the resolver was  *)
(* invoked with the name given in the command, currentLocation holds the    *)
(* resolved coordinates, and the result is the "Location updated"           *)
(* acknowledgment.                                                          *)
C3_LocationChangeCycle ==
    (cycle.program = "gemini" /\ MatchesCommand(cycle.query)) =>
        /\ CallsTo(cycle, "fetch") = << >>
        /\ CallsTo(cycle, "llm") = << >>
        /\ ResolutionSucceeded(cycle) =>
              LET g == CallsTo(cycle, "geocode")[1]
              IN  /\ g.args = <<NameGiven(cycle.query)>>
                  /\ current_latitude = g.answer.data[1].lat
                  /\ current_longitude = g.answer.data[1].lon
                  /\ cycle.result.key = "status"
                  /\ cycle.result.text = "Location updated to "

(* C4 as stated: when the fetch fails, the result is the apology "Sorry, I  *)
(* couldn't retrieve the air quality data..." and neither the Prompt        *)
(* Composer nor the LLM is invoked.                                         *)
C4_Original ==
    (cycle.program \in {"gemini", "openai"} /\ FetchFailed(cycle)) =>
        /\ cycle.result.text = APOLOGY_NO_AIR_QUALITY
        /\ CallsTo(cycle, "compose") = << >>
        /\ CallsTo(cycle, "llm") = << >>

(* C4 amended: when the fetch fails, neither the Prompt Composer nor the    *)
(* LLM is invoked and the result is a fixed failure message: the error      *)
(* envelope "Could not get air quality data" with status 500 in the HTTP    *)
(* controller, the apology "Sorry, I couldn't retrieve the air quality      *)
(* data. Please try again later." in Airsense_pa.py.                        *)
C4_FetchFailureStopsCycle ==
    /\ (cycle.program = "gemini" /\ FetchFailedOrEmpty(cycle)) =>
          /\ cycle.result = Result("error", 500, "Could not get air quality data", << >>)
          /\ CallsTo(cycle, "compose") = << >>
          /\ CallsTo(cycle, "llm") = << >>
    /\ (cycle.program = "openai" /\ FetchFailed(cycle)) =>
          /\ cycle.result = Result("text", 0, APOLOGY_NO_AIR_QUALITY, << >>)
          /\ CallsTo(cycle, "compose") = << >>
          /\ CallsTo(cycle, "llm") = << >>

\* the HTTP controller has answered a fetch whose response lacks the array
C4_Witness ==
    /\ cycle.program = "gemini"
    /\ FetchFailed(cycle)
    /\ CallsTo(cycle, "fetch")[1].answer.kind = "ok"
    /\ cycle.result.status = 500

\* the tier of the table of section 4.3 for an advisory index
TableTier(aqi) ==
    IF aqi = None THEN "unknown"
    ELSE CASE aqi[1] <= 1 -> "good"
           [] aqi[1] = 2  -> "moderate"
           [] aqi[1] = 3  -> "unhealthy-for-sensitive-groups"
           [] aqi[1] = 4  -> "unhealthy"
           [] aqi[1] = 5  -> "very-unhealthy"
           [] aqi[1] > 5  -> "hazardous"

\* the tier an advisory string stands for
TierOfMessage(msg) ==
    CASE msg = MSG_UNKNOWN        -> "unknown"
      [] msg = MSG_GOOD           -> "good"
      [] msg = MSG_MODERATE       -> "moderate"
      [] msg = MSG_SENSITIVE      -> "unhealthy-for-sensitive-groups"
      [] msg = MSG_UNHEALTHY      -> "unhealthy"
      [] msg = MSG_VERY_UNHEALTHY -> "very-unhealthy"
      [] msg = MSG_HAZARDOUS      -> "hazardous"
      [] OTHER                    -> "no tier"

\* the tier a status word of /aqipollutants stands for
TierOfStatus(st) ==
    CASE st = "Not Available"                  -> "unknown"
      [] st = "Good"                           -> "good"
      [] st = "Moderate"                       -> "moderate"
      [] st = "Unhealthy for sensitive groups" -> "unhealthy-for-sensitive-groups"
      [] st = "Unhealthy"                      -> "unhealthy"
      [] st = "Very Unhealthy"                 -> "very-unhealthy"
      [] st = "Hazardous"                      -> "hazardous"
      [] OTHER                                 -> "no tier"

(* C5: for every advisory index, absent included, the advisory returned by  *)
(* get_activity_recommendation is the one of the tier the table gives, at   *)
(* each boundary 1, 2, 3, 4, 5, 6 in particular.                            *)
C5_ClassifyMatchesTable ==
    ret.recommendation # None =>
        TierOfMessage(ret.recommendation[1]) = TableTier(arg.aqi)

\* the index 5 has been classified (the last inclusive boundary)
C5_Witness ==
    /\ arg.aqi = Some(5)
    /\ ret.recommendation = Some(MSG_VERY_UNHEALTHY)

(* C6: for every advisory index, absent included, the advisory of           *)
(* get_activity_recommendation and the status of the inline table of        *)
(* /aqipollutants stand for the same tier.                                  *)
C6_SameTierEverywhere ==
    (ret.recommendation # None /\ ret.status # None) =>
        TierOfMessage(ret.recommendation[1]) = TierOfStatus(ret.status[1])

\* both tables have been applied to an index above the last boundary
C6_Witness ==
    /\ arg.aqi = Some(6)
    /\ ret.recommendation # None
    /\ ret.status = Some("Hazardous")

(* C7: called with an empty or absent formatted reading, the composer       *)
(* returns the fixed apology and makes no call to the LLM, at either level. *)
C7_EmptyReadingShortCircuits ==
    (/\ ret.response # None
     /\ arg.formatted_data = None \/ arg.formatted_data = Some(<< >>)) =>
        /\ ret.response[1].text = APOLOGY_NO_DATA
        /\ ret.response[1].calls = << >>

\* the composer has been called with the empty string at the full level
C7_Witness ==
    /\ arg.formatted_data = Some(<< >>)
    /\ arg.detail_level = "full"
    /\ ret.response # None

FixedApologies ==
    { APOLOGY_GEMINI_ERROR,
      "Sorry, there was an authentication error. Please check the API key.",
      "Sorry, you've exceeded the rate limit. Please try again later.",
      "Sorry, I couldn't process your request. Please try again later.",
      "An unexpected error occurred. Please try again." }

(* C9: if the LLM generation service fails during a cycle, the failure is   *)
(* caught at the call and the result is a fixed apology; no error leaves    *)
(* the cycle.                                                               *)
C9_GenerationFailureIsCaught ==
    LLMFailed(cycle) =>
        /\ cycle.result.key # "exception"
        /\ cycle.result.text \in FixedApologies

\* the level the keywords of the user text ask for (the text is scanned
\* without regard to case)
LevelAsked(raw) ==
    IF \/ Contains(lower(raw), KW_DETAILS)
       \/ Contains(lower(raw), KW_POLLUTANTS)
    THEN "full"
    ELSE "concise"

(* C10: in a cycle that is not a location change and whose fetch succeeds,  *)
(* the level is full exactly when the text contains "details" or            *)
(* "pollutants"; that level is passed to the display and to the composer,   *)
(* whose prompt uses the template of that level; the LLM is invoked once    *)
(* and its answer is the result, verbatim.                                  *)
C10_LevelGovernsDisplayAndPrompt ==
    (/\ cycle.program = "gemini"
     /\ CallsTo(cycle, "fetch") # << >>
     /\ ~FetchFailedOrEmpty(cycle)) =>
        LET level == LevelAsked(cycle.query)
            shown == CallsTo(cycle, "display")
            composed == CallsTo(cycle, "compose")
            asked == CallsTo(cycle, "llm")
        IN  /\ ~MatchesCommand(cycle.query)
            /\ Len(shown) = 1 /\ shown[1].args[3] = level
            /\ (level = "concise") <=> (cycle.console = << >>)
            /\ Len(composed) = 1 /\ composed[1].args[4] = level
            /\ Len(asked) = 1
            /\ asked[1].args[1][2].part = level
            /\ cycle.result.key = "response"
            /\ asked[1].answer.kind = "text" =>
                  cycle.result.text = asked[1].answer.text

\* a text with a capitalised keyword has been answered at the full level
\* with the LLM's text, blanks included
C10_Witness ==
    /\ cycle.program = "gemini"
    /\ cycle.query = T_Pollutants \o SP \o T_air
    /\ CallsTo(cycle, "display") # << >>
    /\ CallsTo(cycle, "display")[1].args[3] = "full"
    /\ cycle.result.text = " Stay indoors today. "

\* the concentrations of a reading's first entry
ComponentsOf(data) == Get(data.list[1], "components", EmptyDict)

\* the printed lines that carry one of CO, NO, NO2, O3, SO2, NH3
OtherPollutantLines(console) ==
    SelectSeq(console, LAMBDA l : \E i \in 1..Len(OTHER_LABELS) : l.label = OTHER_LABELS[i])

\* C11: whatever the reading, displaying it at the concise level prints nothing
\* at all, lines of CO, NO, NO2, O3, SO2 and NH3 are printed at the full level
\* only, and at the full level every one of them the reading has is printed
C11_ConciseDisplaysNothing ==
    ret.console # None =>
        LET console == ret.console[1]
            components == ComponentsOf(arg.data)
        IN  /\ arg.detail_level = "concise" => console = << >>
            /\ OtherPollutantLines(console) # << >> => arg.detail_level = "full"
            /\ arg.detail_level = "full" =>
                   \A i \in 1..Len(OTHER_KEYS) :
                       OTHER_KEYS[i] \in DOMAIN components =>
                           \E n \in 1..Len(console) :
                               /\ console[n].label = OTHER_LABELS[i]
                               /\ console[n].text = "ug/m3"
                               /\ console[n].v = Fmt2f(components[OTHER_KEYS[i]])

\* a reading with all six other pollutants has been displayed at the concise
\* level
C11_Witness ==
    /\ ret.console # None
    /\ arg.detail_level = "concise"
    /\ \A i \in 1..Len(OTHER_KEYS) : OTHER_KEYS[i] \in DOMAIN ComponentsOf(arg.data)

\* the line of the formatted report written for the i-th named pollutant
PollutantLine(formatted, i) == formatted[5 + i]

\* C12: in the formatted report each of the eight named pollutants has its
\* line; a concentration that is in the reading, zero included, is written
\* with exactly two decimals and the unit, and "Not Available" is written
\* exactly when the reading has no value for the pollutant
C12_PollutantRendering ==
    ret.formatted # None =>
        LET components == ComponentsOf(arg.data)
        IN  \A i \in 1..Len(POLLUTANT_KEYS) :
                LET l == PollutantLine(ret.formatted[1], i)
                    k == POLLUTANT_KEYS[i]
                IN  /\ l.label = POLLUTANT_LABELS[i]
                    /\ l.text = "Not Available" <=> k \notin DOMAIN components
                    /\ k \in DOMAIN components =>
                           /\ l.text = "ug/m3"
                           /\ l.v = Fmt2f(components[k])

Collaborators == {"geocode", "fetch", "llm"}

\* the calls of a cycle that go to an external collaborator
CollaboratorCalls(c) == SelectSeq(c.calls, LAMBDA x : x.svc \in Collaborators)

\* C13: in a request cycle of the controller each of the geocoding, the
\* air-quality and the generation service is called at most once; when a call
\* fails it is the cycle's last call to a collaborator and the cycle's one
\* result is the failure's (the 400 or 500 error, or the apology text); and
\* every cycle has ended with exactly one result
C13_NoRetries ==
    cycle.program = "gemini" =>
        /\ \A svc \in Collaborators : Len(CallsTo(cycle, svc)) <= 1
        /\ cycle.result.key \in {"response", "status", "error"}
        /\ ResolutionFailed(cycle) =>
               /\ Len(CollaboratorCalls(cycle)) = 1
               /\ cycle.result.key = "error" /\ cycle.result.status = 400
        /\ FetchFailedOrEmpty(cycle) =>
               /\ Len(CollaboratorCalls(cycle)) = 1
               /\ cycle.result = Result("error", 500, "Could not get air quality data", << >>)
        /\ LLMFailed(cycle) =>
               /\ Len(CollaboratorCalls(cycle)) = 2
               /\ cycle.calls[Len(cycle.calls)].svc = "llm"
               /\ cycle.result = Result("response", 200, APOLOGY_GEMINI_ERROR, << >>)

\* a cycle in which the one call of the generation service failed
C13_Witness ==
    /\ cycle.program = "gemini"
    /\ LLMFailed(cycle)
    /\ Len(CallsTo(cycle, "llm")) = 1

ReadOnlyEndpoints == {"aqipollutants", "pmairquality"}

\* C15: a cycle of /aqipollutants or of /pmairquality leaves the session
\* location as it found it and makes its one fetch for the coordinates
\* current at the call: those of the last successful resolution if there has
\* been one (the default ones otherwise), and, when the cycle before it was
\* a location change that failed, those that were current before that attempt
C15_ReadOnlyEndpoints ==
    cycle.program \in ReadOnlyEndpoints =>
        /\ Location = cycle.pre
        /\ Len(CallsTo(cycle, "fetch")) = 1
        /\ CallsTo(cycle, "fetch")[1].args = <<cycle.pre[1], cycle.pre[2]>>
        /\ CallsTo(cycle, "fetch")[1].args =
               IF geo_last = None THEN <<DEFAULT_LATITUDE, DEFAULT_LONGITUDE>>
               ELSE <<geo_last[1].lat, geo_last[1].lon>>
        /\ previous.resolution_failed =>
               CallsTo(cycle, "fetch")[1].args = <<previous.pre[1][1], previous.pre[1][2]>>

\* a read-only endpoint has been called after a failed change that came after
\* a successful one
C15_Witness ==
    /\ cycle.program \in ReadOnlyEndpoints
    /\ previous.resolution_failed
    /\ geo_last # None
    /\ CallsTo(cycle, "fetch")[1].args # <<DEFAULT_LATITUDE, DEFAULT_LONGITUDE>>

\* the locations there have been: the default one and every resolution
KnownLocations == {DefaultLocation} \cup resolved

\* C14: the coordinates a cycle sends to the air-quality service and the
\* display name it puts into its prompt always belong to the same location
\* (no cycle reads the session location while another cycle is changing it)
C14_OneLocationPerCycle ==
    \A t \in Threads :
        threads[t].pc = "done" /\ threads[t].prompt # None =>
            <<threads[t].sent[1][1], threads[t].sent[1][2],
              threads[t].prompt[1][1].city>> \in KnownLocations

====
